---- MODULE Spec2Model ----
(***************************************************************************)
(* A model of the HTTP server of src/unnamed/part_000: the accept loop of  *)
(* main, the per-connection worker handleConnection, parseRequest, the     *)
(* Router, the endpoint handlers and sendResponse.                         *)
(*                                                                         *)
(* Go strings are TLA+ strings (sequences of characters): Len, SubSeq and  *)
(* \o act on them byte by byte.  A Go map is a sequence of <<key, value>>  *)
(* pairs in slot (insertion) order, so that the order in which `range`     *)
(* visits it can be modelled.                                              *)
(***************************************************************************)
EXTENDS Integers, Sequences, FiniteSets, TLC

VARIABLES
    mainPc,   \* position of main: "Register", "Listen", "Accept", "Exit"
    router,   \* Router.routes, the route table
    pc,       \* per connection: position of its worker
    nreads,   \* per connection: receives that returned data
    nvalid,   \* per connection: requests parseRequest returned as valid
    nsent,    \* per connection: calls of sendResponse (responses written)
    fs,       \* the file system: path -> NoFile, IsDir or the file's bytes
    last      \* the latest receive of any worker and what it led to

vars == <<mainPc, router, pc, nreads, nvalid, nsent, fs, last>>

(***************************************************************************)
(* Bounds of the model.                                                    *)
(***************************************************************************)
MaxReads == 2
MaxPartial == 1

(***************************************************************************)
(* package strings                                                         *)
(***************************************************************************)
HasPrefix(s, p) == Len(s) >= Len(p) /\ SubSeq(s, 1, Len(p)) = p

HasSuffix(s, p) == Len(s) >= Len(p) /\ SubSeq(s, Len(s) - Len(p) + 1, Len(s)) = p

TrimPrefix(s, p) == IF HasPrefix(s, p) THEN SubSeq(s, Len(p) + 1, Len(s)) ELSE s

RECURSIVE IndexFrom(_, _, _)
IndexFrom(s, sep, i) ==
    IF i + Len(sep) - 1 > Len(s) THEN 0
    ELSE IF SubSeq(s, i, i + Len(sep) - 1) = sep THEN i
    ELSE IndexFrom(s, sep, i + 1)

\* strings.Index, 1-based; 0 stands for Go's -1
Index(s, sep) == IndexFrom(s, sep, 1)

Contains(s, sub) == Index(s, sub) # 0

\* strings.Split for a non-empty separator
RECURSIVE Split(_, _)
Split(s, sep) ==
    LET i == Index(s, sep)
    IN  IF i = 0 THEN <<s>>
        ELSE <<SubSeq(s, 1, i - 1)>> \o Split(SubSeq(s, i + Len(sep), Len(s)), sep)

RECURSIVE Join(_, _)
Join(elems, sep) ==
    IF Len(elems) = 0 THEN ""
    ELSE IF Len(elems) = 1 THEN elems[1]
    ELSE elems[1] \o sep \o Join(Tail(elems), sep)

\* fmt.Sprintf("%d", n) for n >= 0
RECURSIVE Itoa(_)
Itoa(n) ==
    LET Digit(d) == SubSeq("0123456789", d + 1, d + 1)
    IN  IF n < 10 THEN Digit(n) ELSE Itoa(n \div 10) \o Digit(n % 10)

(***************************************************************************)
(* map[string]string                                                       *)
(***************************************************************************)
EmptyMap == <<>>

MapHas(m, k) == \E i \in 1..Len(m) : m[i][1] = k

\* m[k]: the zero value "" when the key is absent
MapGet(m, k) ==
    IF MapHas(m, k) THEN m[CHOOSE i \in 1..Len(m) : m[i][1] = k][2] ELSE ""

\* m[k] = v
MapSet(m, k, v) ==
    IF MapHas(m, k)
    THEN [i \in 1..Len(m) |-> IF m[i][1] = k THEN <<k, v>> ELSE m[i]]
    ELSE Append(m, <<k, v>>)

(***************************************************************************)
(* HTTPRequest and parseRequest                                            *)
(***************************************************************************)
\* HTTPRequest{}: the zero value
ZeroRequest == [Method |-> "", Path |-> "", Headers |-> EmptyMap, Body |-> ""]

\* a changed ParseHeaders: the first line of a name keeps its value
RECURSIVE ParseHeaders_firstWins(_, _)
ParseHeaders_firstWins(lines, headers) ==
    IF Len(lines) = 0 THEN headers
    ELSE LET line == Head(lines)
             colonIdx == Index(line, ": ")
         IN  ParseHeaders_firstWins(Tail(lines),
                 IF colonIdx # 0 /\ ~MapHas(headers, SubSeq(line, 1, colonIdx - 1))
                 THEN MapSet(headers, SubSeq(line, 1, colonIdx - 1),
                                      SubSeq(line, colonIdx + 2, Len(line)))
                 ELSE headers)

\* the header loop of parseRequest over lines[1:]
RECURSIVE ParseHeaders(_, _)
ParseHeaders(lines, headers) ==
    IF Len(lines) = 0 THEN headers
    ELSE LET line == Head(lines)
             colonIdx == Index(line, ": ")
         IN  ParseHeaders(Tail(lines),
                 IF colonIdx # 0
                 THEN MapSet(headers, SubSeq(line, 1, colonIdx - 1),
                                      SubSeq(line, colonIdx + 2, Len(line)))
                 ELSE headers)

\* a changed parseRequest: a request line of fewer than two tokens is let
\* through, with the tokens it has
parseRequest_noCheck(raw) ==
    LET parts == Split(raw, "\r\n\r\n")
        headerPart == parts[1]
        body == IF Len(parts) > 1 THEN parts[2] ELSE ""
        lines == Split(headerPart, "\r\n")
        requestLine == Split(lines[1], " ")
    IN  [req |-> [Method  |-> requestLine[1],
                  Path    |-> IF Len(requestLine) < 2 THEN "" ELSE requestLine[2],
                  Headers |-> ParseHeaders(Tail(lines), EmptyMap),
                  Body    |-> body],
         ok |-> TRUE]

parseRequest(raw) ==
    LET parts == Split(raw, "\r\n\r\n")
        headerPart == parts[1]
        body == IF Len(parts) > 1 THEN parts[2] ELSE ""
        lines == Split(headerPart, "\r\n")
        requestLine == Split(lines[1], " ")
    IN  IF Len(requestLine) < 2
        THEN [req |-> ZeroRequest, ok |-> FALSE]
        ELSE [req |-> [Method  |-> requestLine[1],
                       Path    |-> requestLine[2],
                       Headers |-> ParseHeaders(Tail(lines), EmptyMap),
                       Body    |-> body],
              ok |-> TRUE]

\* a changed WantsClose: any Connection header closes
WantsClose_anyValue(req) == MapHas(req.Headers, "Connection")

\* the test of handleConnection and of sendResponse on the Connection header
WantsClose(req) ==
    MapHas(req.Headers, "Connection") /\ MapGet(req.Headers, "Connection") = "close"

(***************************************************************************)
(* The external collaborators: the gzip codec and the file system          *)
(***************************************************************************)
RECURSIVE Reverse(_)
Reverse(s) == IF Len(s) = 0 THEN "" ELSE Reverse(SubSeq(s, 2, Len(s))) \o SubSeq(s, 1, 1)

GzipMagic == "<gz>"
GzipEnd == "</gz>"

\* gzip.NewWriter / Write / Close: a framed stream (header, the deflated
\* content, trailer with the content's size), never the content itself
Gzip(content) == GzipMagic \o Reverse(content) \o GzipEnd \o Itoa(Len(content))

NoFile == [kind |-> "none", data |-> ""]
IsDir == [kind |-> "dir", data |-> ""]
File(d) == [kind |-> "file", data |-> d]

\* the -directory flag's default
Dir == "."

\* filepath.Clean on slash-separated paths
RECURSIVE CleanElems(_, _, _)
CleanElems(elems, rooted, out) ==
    IF Len(elems) = 0 THEN out
    ELSE LET e == Head(elems)
             rest == Tail(elems)
         IN  IF e = "" \/ e = "." THEN CleanElems(rest, rooted, out)
             ELSE IF e = ".."
                  THEN IF Len(out) > 0 /\ out[Len(out)] # ".."
                       THEN CleanElems(rest, rooted, SubSeq(out, 1, Len(out) - 1))
                       ELSE IF rooted THEN CleanElems(rest, rooted, out)
                       ELSE CleanElems(rest, rooted, Append(out, ".."))
                  ELSE CleanElems(rest, rooted, Append(out, e))

Clean(path) ==
    LET rooted == HasPrefix(path, "/")
        out == CleanElems(Split(path, "/"), rooted, <<>>)
        p == (IF rooted THEN "/" ELSE "") \o Join(out, "/")
    IN  IF p = "" THEN "." ELSE p

\* filepath.Join(dir, name): empty elements are ignored, the result is Cleaned
FilepathJoin(dir, name) ==
    IF dir = "" /\ name = "" THEN ""
    ELSE IF name = "" THEN Clean(dir)
    ELSE IF dir = "" THEN Clean(name)
    ELSE Clean(dir \o "/" \o name)

\* os.ReadFile: io is what the operating system does with a file that exists
ReadFile(files, path, io) ==
    IF path \in DOMAIN files /\ files[path].kind = "file" /\ io.kind = "ok"
    THEN [data |-> files[path].data, err |-> FALSE]
    ELSE [data |-> "", err |-> TRUE]

\* os.WriteFile(path, data, 0644): open with O_CREATE|O_TRUNC, write, close.
\* A failed open leaves the file as it was; a failed write leaves it
\* truncated, with the first io.n bytes of data.
WriteFile(files, path, data, io) ==
    IF path \notin DOMAIN files \/ files[path].kind = "dir" \/ io.kind = "eopen"
    THEN [files |-> files, err |-> TRUE]
    ELSE IF io.kind = "ewrite"
    THEN LET k == IF io.n < Len(data) THEN io.n ELSE 0
         IN  [files |-> [files EXCEPT ![path] = File(SubSeq(data, 1, k))], err |-> TRUE]
    ELSE [files |-> [files EXCEPT ![path] = File(data)], err |-> FALSE]

(***************************************************************************)
(* sendResponse                                                            *)
(***************************************************************************)
\* a call of sendResponse by a handler: status, headers (nil is the empty
\* map) and body
Call(status, headers, body) == [status |-> status, headers |-> headers, body |-> body]

\* a changed WithCORS: the defaults replace what the caller gave
WithCORS_overrides(headers) ==
    MapSet(MapSet(MapSet(headers,
        "Access-Control-Allow-Origin", "*"),
        "Access-Control-Allow-Methods", "GET, POST, OPTIONS"),
        "Access-Control-Allow-Headers",
        "Content-Type, Accept, Accept-Encoding, X-Requested-With")

\* the three CORS headers sendResponse adds when the caller gave none
WithCORS(headers) ==
    LET h1 == IF ~MapHas(headers, "Access-Control-Allow-Origin")
              THEN MapSet(headers, "Access-Control-Allow-Origin", "*")
              ELSE headers
        h2 == IF ~MapHas(h1, "Access-Control-Allow-Methods")
              THEN MapSet(h1, "Access-Control-Allow-Methods", "GET, POST, OPTIONS")
              ELSE h1
    IN  IF ~MapHas(h2, "Access-Control-Allow-Headers")
        THEN MapSet(h2, "Access-Control-Allow-Headers",
                    "Content-Type, Accept, Accept-Encoding, X-Requested-With")
        ELSE h2

\* a changed RangeFrom: the walk stops at the last slot instead of wrapping
RangeFrom_noWrap(m, start) == SubSeq(m, start + 1, Len(m))

\* `for k, v := range headers`: the runtime starts the walk of a map of up to
\* eight entries at a slot it draws at random and wraps around
RangeFrom(m, start) ==
    [i \in 1..Len(m) |-> m[((start + i - 1) % Len(m)) + 1]]

\* a changed sendResponse: the request's Connection: close is not echoed
sendResponse_noConnectionLine(status, headers, body, req, start) ==
    LET h == WithCORS(headers)
        walk == RangeFrom(h, start)
        statusLine == <<"HTTP/1.1 " \o status>>
        headerLines == [i \in 1..Len(walk) |-> walk[i][1] \o ": " \o walk[i][2]]
        contentLength == <<"Content-Length: " \o Itoa(Len(body))>>
    IN  [lines |-> statusLine \o headerLines \o contentLength, body |-> body]

\* the []string `response` and the body that sendResponse joins and writes
sendResponse(status, headers, body, req, start) ==
    LET h == WithCORS(headers)
        walk == RangeFrom(h, start)
        statusLine == <<"HTTP/1.1 " \o status>>
        headerLines == [i \in 1..Len(walk) |-> walk[i][1] \o ": " \o walk[i][2]]
        contentLength == <<"Content-Length: " \o Itoa(Len(body))>>
        connection == IF WantsClose(req) THEN <<"Connection: close">> ELSE <<>>
    IN  [lines |-> statusLine \o headerLines \o contentLength \o connection,
         body |-> body]

\* finalResp, the bytes handed to conn.Write
FinalResp(resp) == Join(resp.lines, "\r\n") \o "\r\n\r\n" \o resp.body

\* what a sequence of sendResponse calls can put on the wire
RECURSIVE SendAll(_, _)
SendAll(calls, req) ==
    IF Len(calls) = 0 THEN {<<>>}
    ELSE LET c == Head(calls)
             n == Len(WithCORS(c.headers))
         IN  {<<sendResponse(c.status, c.headers, c.body, req, start)>> \o rest :
                 start \in 0..(n - 1), rest \in SendAll(Tail(calls), req)}

(***************************************************************************)
(* The handlers.  Each returns the file system it leaves, its calls of     *)
(* sendResponse and the file operation it made.                            *)
(***************************************************************************)
NoFsOp == [op |-> "none", path |-> "", err |-> FALSE]

Effect(files, calls, fsop) == [files |-> files, calls |-> calls, fsop |-> fsop]

rootHandler(req, dir, files, io) ==
    Effect(files, <<Call("200 OK", EmptyMap, "")>>, NoFsOp)

echoHandler(req, dir, files, io) ==
    LET content == TrimPrefix(req.Path, "/echo/")
        encoding == MapGet(req.Headers, "Accept-Encoding")
        shouldCompress == Contains(encoding, "gzip")
        finalBody == IF shouldCompress THEN Gzip(content) ELSE content
        h1 == MapSet(EmptyMap, "Content-Type", "text/plain")
        extraHeaders == IF shouldCompress
                        THEN MapSet(h1, "Content-Encoding", "gzip")
                        ELSE h1
    IN  Effect(files, <<Call("200 OK", extraHeaders, finalBody)>>, NoFsOp)

userAgentHandler(req, dir, files, io) ==
    LET agent == MapGet(req.Headers, "User-Agent")
        headers == MapSet(EmptyMap, "Content-Type", "text/plain")
    IN  Effect(files, <<Call("200 OK", headers, agent)>>, NoFsOp)

optionsHandler(req, dir, files, io) ==
    LET headers ==
            << <<"Access-Control-Allow-Origin", "*">>,
               <<"Access-Control-Allow-Methods", "GET, POST, OPTIONS">>,
               <<"Access-Control-Allow-Headers",
                 "Content-Type, Accept, Accept-Encoding, X-Requested-With">> >>
    IN  Effect(files, <<Call("204 No Content", headers, "")>>, NoFsOp)

getFileHandler(req, dir, files, io) ==
    LET fileName == TrimPrefix(req.Path, "/files/")
        fullPath == FilepathJoin(dir, fileName)
        r == ReadFile(files, fullPath, io)
        fsop == [op |-> "read", path |-> fullPath, err |-> r.err]
    IN  IF r.err
        THEN Effect(files, <<Call("404 Not Found", EmptyMap, "")>>, fsop)
        ELSE Effect(files,
                    <<Call("200 OK",
                           MapSet(EmptyMap, "Content-Type", "application/octet-stream"),
                           r.data)>>,
                    fsop)

\* a changed createFileHandler: no return after the 500 response
createFileHandler_noReturn(req, dir, files, io) ==
    LET fileName == TrimPrefix(req.Path, "/files/")
        fullPath == FilepathJoin(dir, fileName)
        w == WriteFile(files, fullPath, req.Body, io)
        fsop == [op |-> "write", path |-> fullPath, err |-> w.err]
    IN  IF w.err
        THEN Effect(w.files, <<Call("500 Internal Server Error", EmptyMap, ""),
                               Call("201 Created", EmptyMap, "")>>, fsop)
        ELSE Effect(w.files, <<Call("201 Created", EmptyMap, "")>>, fsop)

\* a changed createFileHandler: the error of os.WriteFile is not looked at
createFileHandler_ignoresError(req, dir, files, io) ==
    LET fileName == TrimPrefix(req.Path, "/files/")
        fullPath == FilepathJoin(dir, fileName)
        w == WriteFile(files, fullPath, req.Body, io)
        fsop == [op |-> "write", path |-> fullPath, err |-> w.err]
    IN  Effect(w.files, <<Call("201 Created", EmptyMap, "")>>, fsop)

createFileHandler(req, dir, files, io) ==
    LET fileName == TrimPrefix(req.Path, "/files/")
        fullPath == FilepathJoin(dir, fileName)
        w == WriteFile(files, fullPath, req.Body, io)
        fsop == [op |-> "write", path |-> fullPath, err |-> w.err]
    IN  IF w.err
        THEN Effect(w.files, <<Call("500 Internal Server Error", EmptyMap, "")>>, fsop)
        ELSE Effect(w.files, <<Call("201 Created", EmptyMap, "")>>, fsop)

\* route.Handler(conn, req, dir)
CallHandler(handler, req, dir, files, io) ==
    CASE handler = "rootHandler"       -> rootHandler(req, dir, files, io)
      [] handler = "echoHandler"       -> echoHandler(req, dir, files, io)
      [] handler = "userAgentHandler"  -> userAgentHandler(req, dir, files, io)
      [] handler = "optionsHandler"    -> optionsHandler(req, dir, files, io)
      [] handler = "getFileHandler"    -> getFileHandler(req, dir, files, io)
      [] handler = "createFileHandler" -> createFileHandler(req, dir, files, io)

(***************************************************************************)
(* The Router                                                              *)
(***************************************************************************)
\* a changed Register: every route is stored as Exact
Register_exactOnly(routes, method, path, handler) ==
    Append(routes, [Method   |-> method,
                    Path     |-> path,
                    Handler  |-> handler,
                    IsPrefix |-> FALSE])

Register(routes, method, path, handler) ==
    Append(routes, [Method   |-> method,
                    Path     |-> path,
                    Handler  |-> handler,
                    IsPrefix |-> HasSuffix(path, "/")])

Get(routes, path, handler) == Register(routes, "GET", path, handler)

Post(routes, path, handler) == Register(routes, "POST", path, handler)

\* a changed RouteMatches: the pattern is compared for equality only
RouteMatches_exactOnly(route, req) ==
    route.Method = req.Method /\ req.Path = route.Path

\* the test of one route in the loop of ServeRequest
RouteMatches(route, req) ==
    /\ route.Method = req.Method
    /\ IF route.IsPrefix
       THEN HasPrefix(req.Path, route.Path)
       ELSE req.Path = route.Path

\* the fallback of ServeRequest
NotFound(files) == Effect(files, <<Call("404 Not Found", EmptyMap, "")>>, NoFsOp)

\* a changed ServeFrom: a later matching route replaces an earlier one
ServeFrom_lastMatch(routes, i, req, dir, files, io) ==
    LET matching == {j \in i..Len(routes) : RouteMatches(routes[j], req)}
    IN  IF matching = {}
        THEN [eff |-> NotFound(files), ran |-> <<"fallback">>]
        ELSE LET j == CHOOSE k \in matching : \A l \in matching : l <= k
             IN  [eff |-> CallHandler(routes[j].Handler, req, dir, files, io),
                  ran |-> <<routes[j].Handler>>]

\* the loop of ServeRequest from route i on; `ran` lists what ran
RECURSIVE ServeFrom(_, _, _, _, _, _)
ServeFrom(routes, i, req, dir, files, io) ==
    IF i > Len(routes)
    THEN [eff |-> NotFound(files), ran |-> <<"fallback">>]
    ELSE IF RouteMatches(routes[i], req)
    THEN [eff |-> CallHandler(routes[i].Handler, req, dir, files, io),
          ran |-> <<routes[i].Handler>>]
    ELSE ServeFrom(routes, i + 1, req, dir, files, io)

ServeRequest(routes, req, dir, files, io) == ServeFrom(routes, 1, req, dir, files, io)

(***************************************************************************)
(* The inputs: what a client can send in one read, and what the operating  *)
(* system can answer to a file operation.                                  *)
(***************************************************************************)
CRLF == "\r\n"

Raw(method, path, headerLines, body) ==
    Join(<<method \o " " \o path \o " HTTP/1.1">> \o headerLines, CRLF)
        \o CRLF \o CRLF \o body

Close == <<"Connection: close">>

GetPaths == {"/", "/echo/ab", "/user-agent", "/files/f", "/files/", "/nope", "/echo"}

Raws ==
    {Raw("GET", p, h, "") : p \in GetPaths, h \in {<<>>, Close}}
    \cup {Raw("GET", "/echo/ab", h, "") :
            h \in {<<"Accept-Encoding: gzip">>,
                   <<"Accept-Encoding: deflate, gzip">>,
                   <<"Accept-Encoding: identity">>,
                   <<"Accept-Encoding: gzip", "Connection: close">>}}
    \cup {Raw("GET", p, <<>>, "") : p \in {"/echo/", "/echo/gzip", "/files/../x"}}
    \cup {Raw("GET", "/user-agent", h, "") :
            h \in {<<"User-Agent: ua/1.0">>, <<"user-agent: ua/1.0">>}}
    \cup {Raw("GET", "/", h, "") :
            h \in {<<"Connection: keep-alive">>, <<"connection: close">>}}
    \cup {Raw("POST", "/files/f", <<>>, b) : b \in {"hi", "yo!", ""}}
    \cup {Raw("POST", "/files/f", Close, "hi"),
          Raw("POST", "/files/", <<>>, "hi"),
          Raw("POST", "/files/../x", <<>>, "hi"),
          Raw("POST", "/", <<>>, "hi"),
          Raw("OPTIONS", "/", <<>>, ""),
          Raw("OPTIONS", "/files/f", <<>>, ""),
          Raw("OPTIONS", "/echo/ab", Close, ""),
          Raw("OPTIONS", "*", <<>>, ""),
          Raw("DELETE", "/files/f", <<>>, ""),
          Raw("get", "/", <<>>, ""),
          "GARBAGE" \o CRLF \o CRLF,
          "GARBAGE" \o CRLF \o "Connection: close" \o CRLF \o CRLF}
    \* bytes that put the parser's rules to the test
    \cup {Raw("POST", "/files/f", <<>>, "a" \o CRLF \o CRLF \o "b"),
          Raw("GET", "/", <<>>, "") \o Raw("POST", "/files/f", <<>>, "hi"),
          Raw("GET", "/", <<"Connection: keep-alive", "Connection: close">>, ""),
          Raw("GET", "/", <<"Connection: close", "Connection: keep-alive">>, ""),
          Raw("GET", "/", <<"X-Junk", "X-A: b: c">>, ""),
          "GET / HTTP/1.1",
          "GET " \o CRLF \o CRLF,
          " / HTTP/1.1" \o CRLF \o CRLF}

IoOk == [kind |-> "ok", n |-> 0]

IoOutcomes ==
    {IoOk, [kind |-> "eopen", n |-> 0]}
    \cup {[kind |-> "ewrite", n |-> k] : k \in 0..MaxPartial}

\* the answers that a request's file operation can tell apart: none matters
\* to a handler that makes no file operation, and a read only fails or not
IoFor(routes, req, dir, files) ==
    LET op == ServeRequest(routes, req, dir, files, IoOk).eff.fsop.op
    IN  IF op = "write" THEN IoOutcomes
        ELSE IF op = "read" THEN {IoOk, [kind |-> "eopen", n |-> 0]}
        ELSE {IoOk}

FsPaths == {".", "f", "../x"}

\* the connections that clients open
Conns == {1}

(***************************************************************************)
(* The state machine                                                       *)
(***************************************************************************)
\* parseRequest, tabulated over the inputs
Parsed == [raw \in Raws |-> parseRequest(raw)]

NoEvent ==
    [conn |-> 0, kind |-> "none", raw |-> "", ok |-> FALSE, req |-> ZeroRequest,
     ran |-> <<>>, fsop |-> NoFsOp, calls |-> <<>>, sent |-> <<>>,
     delivered |-> FALSE, closed |-> FALSE]

\* the calls of main on the router, in order
Registrations ==
    << <<"Get", "/", "rootHandler">>,
       <<"Get", "/echo/", "echoHandler">>,
       <<"Get", "/user-agent", "userAgentHandler">>,
       <<"Get", "/files/", "getFileHandler">>,
       <<"Post", "/files/", "createFileHandler">>,
       <<"OPTIONS", "/", "optionsHandler">> >>

Init ==
    /\ mainPc = "Register"
    /\ router = <<>>
    /\ pc = [c \in Conns |-> "Idle"]
    /\ nreads = [c \in Conns |-> 0]
    /\ nvalid = [c \in Conns |-> 0]
    /\ nsent = [c \in Conns |-> 0]
    /\ fs \in {[p \in FsPaths |->
                  IF p = "." THEN IsDir
                  ELSE IF p = "f" THEN f
                  ELSE File("top")] : f \in {NoFile, File("v0")}}
    /\ last = NoEvent

\* main: one call of router.Get, router.Post or router.Register
MainRegister ==
    /\ mainPc = "Register"
    /\ Len(router) < Len(Registrations)
    /\ LET r == Registrations[Len(router) + 1]
       IN  router' = CASE r[1] = "Get"  -> Get(router, r[2], r[3])
                       [] r[1] = "Post" -> Post(router, r[2], r[3])
                       [] OTHER         -> Register(router, r[1], r[2], r[3])
    /\ UNCHANGED <<mainPc, pc, nreads, nvalid, nsent, fs, last>>

\* main: net.Listen succeeds, or fails and the process exits
MainListen ==
    /\ mainPc = "Register"
    /\ Len(router) = Len(Registrations)
    /\ mainPc' \in {"Accept", "Exit"}
    /\ UNCHANGED <<router, pc, nreads, nvalid, nsent, fs, last>>

\* main: l.Accept returns a connection and its worker is started
Accept(c) ==
    /\ mainPc = "Accept"
    /\ pc[c] = "Idle"
    /\ pc' = [pc EXCEPT ![c] = "Reading"]
    /\ UNCHANGED <<mainPc, router, nreads, nvalid, nsent, fs, last>>

\* main: l.Accept returns an error; the loop continues without a worker
AcceptError(c) ==
    /\ mainPc = "Accept"
    /\ pc[c] = "Idle"
    /\ pc' = [pc EXCEPT ![c] = "Aborted"]
    /\ UNCHANGED <<mainPc, router, nreads, nvalid, nsent, fs, last>>

\* a changed ReadFails: after an error other than end-of-stream the worker
\* reads again
ReadFails_retriesOnError(c, kind) ==
    /\ pc[c] = "Reading"
    /\ pc' = [pc EXCEPT ![c] = IF kind = "err" THEN "Reading" ELSE "Closed"]
    /\ last' = [NoEvent EXCEPT !.conn = c, !.kind = kind, !.closed = (kind # "err")]
    /\ UNCHANGED <<mainPc, router, nreads, nvalid, nsent, fs>>

\* a changed ReadFails: the failed read closes every open connection
ReadFails_closesAll(c, kind) ==
    /\ pc[c] = "Reading"
    /\ pc' = [d \in DOMAIN pc |-> IF pc[d] = "Reading" THEN "Closed" ELSE pc[d]]
    /\ last' = [NoEvent EXCEPT !.conn = c, !.kind = kind, !.closed = TRUE]
    /\ UNCHANGED <<mainPc, router, nreads, nvalid, nsent, fs>>

\* handleConnection: conn.Read returns io.EOF or no bytes (kind "eof") or
\* another error (kind "err"); the loop ends and the deferred Close runs
ReadFails(c, kind) ==
    /\ pc[c] = "Reading"
    /\ pc' = [pc EXCEPT ![c] = "Closed"]
    /\ last' = [NoEvent EXCEPT !.conn = c, !.kind = kind, !.closed = TRUE]
    /\ UNCHANGED <<mainPc, router, nreads, nvalid, nsent, fs>>

\* a changed Iterate: the bytes of a read that did not parse are kept and put
\* before the bytes of the next read
Iterate_keepsBytes(c, raw) ==
    /\ pc[c] = "Reading"
    /\ nreads[c] < MaxReads
    /\ nreads' = [nreads EXCEPT ![c] = @ + 1]
    /\ LET kept == IF last.conn = c /\ last.kind = "data" /\ ~last.ok
                   THEN last.raw ELSE ""
           p == IF kept = "" THEN Parsed[raw] ELSE parseRequest(kept \o raw)
       IN  IF ~p.ok
           THEN /\ last' = [NoEvent EXCEPT !.conn = c, !.kind = "data", !.raw = raw]
                /\ UNCHANGED <<pc, nvalid, nsent, fs>>
           ELSE \E io \in IoFor(router, p.req, Dir, fs) :
                \E s \in {ServeRequest(router, p.req, Dir, fs, io)} :
                LET close == WantsClose(p.req)
                IN  /\ \E sent \in SendAll(s.eff.calls, p.req), delivered \in BOOLEAN :
                          last' = [conn |-> c, kind |-> "data", raw |-> raw,
                                   ok |-> TRUE, req |-> p.req, ran |-> s.ran,
                                   fsop |-> s.eff.fsop, calls |-> s.eff.calls,
                                   sent |-> sent, delivered |-> delivered,
                                   closed |-> close]
                    /\ fs' = s.eff.files
                    /\ nvalid' = [nvalid EXCEPT ![c] = @ + 1]
                    /\ nsent' = [nsent EXCEPT ![c] = @ + Len(s.eff.calls)]
                    /\ pc' = [pc EXCEPT ![c] = IF close THEN "Closed" ELSE "Reading"]
    /\ UNCHANGED <<mainPc, router>>

\* handleConnection: one iteration of the loop in which conn.Read returns the
\* bytes raw: parse, dispatch, respond, and close or read again.  io is the
\* operating system's answer to the handler's file operation and delivered
\* tells whether conn.Write succeeded (its error is not looked at).
Iterate(c, raw) ==
    /\ pc[c] = "Reading"
    /\ nreads[c] < MaxReads
    /\ nreads' = [nreads EXCEPT ![c] = @ + 1]
    /\ LET p == Parsed[raw]
       IN  IF ~p.ok
           THEN /\ last' = [NoEvent EXCEPT !.conn = c, !.kind = "data", !.raw = raw]
                /\ UNCHANGED <<pc, nvalid, nsent, fs>>
           ELSE \E io \in IoFor(router, p.req, Dir, fs) :
                \* s is what ServeRequest does with the request
                \E s \in {ServeRequest(router, p.req, Dir, fs, io)} :
                LET close == WantsClose(p.req)
                IN  /\ \E sent \in SendAll(s.eff.calls, p.req), delivered \in BOOLEAN :
                          last' = [conn |-> c, kind |-> "data", raw |-> raw,
                                   ok |-> TRUE, req |-> p.req, ran |-> s.ran,
                                   fsop |-> s.eff.fsop, calls |-> s.eff.calls,
                                   sent |-> sent, delivered |-> delivered,
                                   closed |-> close]
                    /\ fs' = s.eff.files
                    /\ nvalid' = [nvalid EXCEPT ![c] = @ + 1]
                    /\ nsent' = [nsent EXCEPT ![c] = @ + Len(s.eff.calls)]
                    /\ pc' = [pc EXCEPT ![c] = IF close THEN "Closed" ELSE "Reading"]
    /\ UNCHANGED <<mainPc, router>>

Next ==
    \/ MainRegister
    \/ MainListen
    \/ \E c \in Conns : Accept(c)
    \/ \E c \in Conns : AcceptError(c)
    \/ \E c \in Conns, kind \in {"eof", "err"} : ReadFails(c, kind)
    \/ \E c \in Conns, raw \in Raws : Iterate(c, raw)

Spec == Init /\ [][Next]_vars

(***************************************************************************)
(* sendResponse on its own: any caller, any status, header map and body    *)
(***************************************************************************)
Statuses == {"200 OK", "204 No Content", "404 Not Found"}

Bodies == {"", "hi", "0123456789ab"}

\* header maps a caller can pass; nil is the empty map
CallerHeaders ==
    {EmptyMap,
     << <<"Content-Type", "text/plain">> >>,
     << <<"Content-Length", "99">> >>,
     << <<"Content-Type", "text/plain">>, <<"Content-Length", "2">> >>,
     << <<"Access-Control-Allow-Origin", "https://a.example">> >>,
     << <<"Access-Control-Allow-Methods", "GET">>,
        <<"Content-Type", "text/plain">>,
        <<"Access-Control-Allow-Headers", "Accept">> >>,
     << <<"Access-Control-Allow-Origin", "*">>,
        <<"Access-Control-Allow-Methods", "GET, POST, OPTIONS">>,
        <<"Access-Control-Allow-Headers",
          "Content-Type, Accept, Accept-Encoding, X-Requested-With">> >>}

\* the requests a response can answer, as far as sendResponse looks at them
SendRequests ==
    {[ZeroRequest EXCEPT !.Method = "GET", !.Path = "/", !.Headers = h] :
        h \in {EmptyMap,
               << <<"Connection", "close">> >>,
               << <<"Connection", "keep-alive">> >>}}

\* a caller is about to call sendResponse
InitSend ==
    /\ mainPc = "Send"
    /\ router = <<>>
    /\ pc = [c \in Conns |-> "Idle"]
    /\ nreads = [c \in Conns |-> 0]
    /\ nvalid = [c \in Conns |-> 0]
    /\ nsent = [c \in Conns |-> 0]
    /\ fs = [p \in FsPaths |-> IF p = "." THEN IsDir ELSE NoFile]
    /\ \E status \in Statuses, headers \in CallerHeaders, body \in Bodies,
          req \in SendRequests :
          last = [NoEvent EXCEPT !.kind = "call", !.ok = TRUE, !.req = req,
                                 !.calls = <<Call(status, headers, body)>>]

\* sendResponse runs; start is where the walk of the header map begins
SendResponseStep(start) ==
    /\ mainPc = "Send"
    /\ last.kind = "call"
    /\ LET c == last.calls[1]
       IN  /\ start < Len(WithCORS(c.headers))
           /\ last' = [last EXCEPT
                         !.kind = "sent",
                         !.sent = <<sendResponse(c.status, c.headers, c.body,
                                                 last.req, start)>>]
    /\ UNCHANGED <<mainPc, router, pc, nreads, nvalid, nsent, fs>>

NextSend ==
    \E start \in 0..(Len(WithCORS(last.calls[1].headers)) - 1) :
        SendResponseStep(start)

SpecSend == InitSend /\ [][NextSend]_vars

(***************************************************************************)
(* Two connections, each with its worker goroutine                         *)
(***************************************************************************)
ConcConns == {1, 2}

\* what the clients of the two connections send
ConcRaws ==
    {Raw("GET", "/", <<>>, ""),
     Raw("GET", "/", Close, ""),
     Raw("POST", "/files/f", <<>>, "hi"),
     Raw("GET", "/", <<>>, "") \o Raw("POST", "/files/f", <<>>, "hi"),
     "GARBAGE" \o CRLF \o CRLF}

InitConc ==
    /\ mainPc = "Register"
    /\ router = <<>>
    /\ pc = [c \in ConcConns |-> "Idle"]
    /\ nreads = [c \in ConcConns |-> 0]
    /\ nvalid = [c \in ConcConns |-> 0]
    /\ nsent = [c \in ConcConns |-> 0]
    /\ fs = [p \in FsPaths |->
                IF p = "." THEN IsDir ELSE IF p = "f" THEN NoFile ELSE File("top")]
    /\ last = NoEvent

NextConc ==
    \/ MainRegister
    \/ MainListen
    \/ \E c \in ConcConns : Accept(c)
    \/ \E c \in ConcConns : AcceptError(c)
    \/ \E c \in ConcConns, kind \in {"eof", "err"} : ReadFails(c, kind)
    \/ \E c \in ConcConns, raw \in ConcRaws : Iterate(c, raw)

SpecConc == InitConc /\ [][NextConc]_vars

(***************************************************************************)
(* What a client sees of a response                                        *)
(***************************************************************************)
StatusOf(resp) == TrimPrefix(resp.lines[1], "HTTP/1.1 ")

HeaderCount(resp, name) ==
    Cardinality({i \in 2..Len(resp.lines) : HasPrefix(resp.lines[i], name \o ": ")})

HeaderIs(resp, name, value) ==
    /\ HeaderCount(resp, name) = 1
    /\ \E i \in 2..Len(resp.lines) : resp.lines[i] = name \o ": " \o value

HeaderNames(resp) ==
    {SubSeq(resp.lines[i], 1, Index(resp.lines[i], ": ") - 1) : i \in 2..Len(resp.lines)}

CORSNames ==
    {"Access-Control-Allow-Origin", "Access-Control-Allow-Methods",
     "Access-Control-Allow-Headers"}

IsGzip(b) ==
    /\ HasPrefix(b, GzipMagic)
    /\ \E n \in 0..Len(b) :
          b = GzipMagic \o SubSeq(b, Len(GzipMagic) + 1, Len(GzipMagic) + n)
                \o GzipEnd \o Itoa(n)

\* the decompression a client applies to a gzip stream
Gunzip(b) ==
    LET n == CHOOSE k \in 0..Len(b) :
                 b = GzipMagic \o SubSeq(b, Len(GzipMagic) + 1, Len(GzipMagic) + k)
                       \o GzipEnd \o Itoa(k)
    IN  Reverse(SubSeq(b, Len(GzipMagic) + 1, Len(GzipMagic) + n))

\* the latest receive held a valid request, which was dispatched
Served == last.kind = "data" /\ last.ok

\* the latest request was answered by exactly one response, with this status
\* and this body
Answered(status, body) ==
    /\ Len(last.sent) = 1
    /\ StatusOf(last.sent[1]) = status
    /\ last.sent[1].body = body

\* the request carries a header line "Connection: close", exactly
HasConnectionClose(req) ==
    \E i \in 1..Len(req.Headers) : req.Headers[i] = <<"Connection", "close">>

(***************************************************************************)
(* The properties                                                          *)
(***************************************************************************)

\* C1: after the response to a valid request the worker closes the connection
\* if and only if the request's Connection header is exactly "close", and
\* otherwise is back at reading, one response written per valid request; a
\* closed connection is never read or written again.
C1_CloseIffConnectionClose ==
    /\ [](Served =>
            /\ pc[last.conn] = "Closed" <=> HasConnectionClose(last.req)
            /\ ~HasConnectionClose(last.req) => pc[last.conn] = "Reading"
            /\ nsent[last.conn] = nvalid[last.conn])
    /\ [][\A c \in DOMAIN pc :
            pc[c] = "Closed" =>
                /\ pc'[c] = "Closed"
                /\ nreads'[c] = nreads[c]
                /\ nsent'[c] = nsent[c]]_vars

\* two requests on one connection, the first without Connection: close, have
\* been answered by two responses, and the second, with it, closed it
C1_Witness ==
    /\ Served
    /\ HasConnectionClose(last.req)
    /\ nreads[last.conn] = 2
    /\ nsent[last.conn] = 2
    /\ pc[last.conn] = "Closed"

\* C2: a request whose method and path equal those of an Exact route of the
\* route table is answered by that route's handler, by no other handler and
\* not by the 404 fallback.
C2_ExactRouteAnswered ==
    Served =>
        \A i \in 1..Len(router) :
            (/\ ~router[i].IsPrefix
             /\ last.req.Method = router[i].Method
             /\ last.req.Path = router[i].Path)
            => last.ran = <<router[i].Handler>>

\* C3: a GET request is answered by the root handler (200, empty body) if and
\* only if its path is exactly "/".
C3_RootIsExact ==
    (Served /\ last.req.Method = "GET") =>
        /\ last.ran = <<"rootHandler">> <=> last.req.Path = "/"
        /\ last.req.Path = "/" => Answered("200 OK", "")

\* the route table of section 6 of the specification
InRouteTable(req) ==
    \/ /\ req.Method = "GET"
       /\ \/ req.Path = "/"
          \/ req.Path = "/user-agent"
          \/ HasPrefix(req.Path, "/echo/")
          \/ HasPrefix(req.Path, "/files/")
    \/ req.Method = "POST" /\ HasPrefix(req.Path, "/files/")
    \/ req.Method = "OPTIONS" /\ HasPrefix(req.Path, "/")

\* C4: a valid request that matches no route of the route table receives 404
\* with an empty body and no header beyond the CORS defaults, Content-Length
\* and Connection.
C4_UnmatchedIs404 ==
    (Served /\ ~InRouteTable(last.req)) =>
        /\ Answered("404 Not Found", "")
        /\ HeaderNames(last.sent[1]) \subseteq
              CORSNames \cup {"Content-Length", "Connection"}
        /\ HeaderIs(last.sent[1], "Access-Control-Allow-Origin", "*")
        /\ HeaderIs(last.sent[1], "Access-Control-Allow-Methods", "GET, POST, OPTIONS")
        /\ HeaderIs(last.sent[1], "Access-Control-Allow-Headers",
                    "Content-Type, Accept, Accept-Encoding, X-Requested-With")

\* C5: GET /echo/s without an Accept-Encoding header receives 200 with body
\* exactly s, Content-Length the length of s and Content-Type: text/plain.
C5_EchoRoundTrip ==
    (/\ Served
     /\ last.req.Method = "GET"
     /\ HasPrefix(last.req.Path, "/echo/")
     /\ ~MapHas(last.req.Headers, "Accept-Encoding"))
    => LET s == SubSeq(last.req.Path, Len("/echo/") + 1, Len(last.req.Path))
       IN  /\ Answered("200 OK", s)
           /\ HeaderIs(last.sent[1], "Content-Length", Itoa(Len(s)))
           /\ HeaderIs(last.sent[1], "Content-Type", "text/plain")

\* C6: the response to GET /echo/s carries Content-Encoding: gzip and the
\* gzip compression of s as its body if and only if the Accept-Encoding value
\* contains "gzip"; then Content-Length is the length of the compressed body
\* and decompressing the body gives s.
C6_EchoGzip ==
    (/\ Served
     /\ last.req.Method = "GET"
     /\ HasPrefix(last.req.Path, "/echo/"))
    => LET s == SubSeq(last.req.Path, Len("/echo/") + 1, Len(last.req.Path))
           asked == Contains(MapGet(last.req.Headers, "Accept-Encoding"), "gzip")
       IN  /\ Len(last.sent) = 1
           /\ asked <=> (/\ HeaderIs(last.sent[1], "Content-Encoding", "gzip")
                         /\ last.sent[1].body = Gzip(s))
           /\ asked =>
                 /\ HeaderIs(last.sent[1], "Content-Length", Itoa(Len(Gzip(s))))
                 /\ Len(Gzip(s)) # Len(s)
                 /\ IsGzip(last.sent[1].body)
                 /\ Gunzip(last.sent[1].body) = s

\* C7: GET /user-agent receives 200 with Content-Type: text/plain and the
\* value of the request's User-Agent header, or the empty string, as body.
C7_UserAgentEchoed ==
    (Served /\ last.req.Method = "GET" /\ last.req.Path = "/user-agent")
    => /\ Answered("200 OK",
                   IF \E i \in 1..Len(last.req.Headers) :
                          last.req.Headers[i][1] = "User-Agent"
                   THEN LET i == CHOOSE j \in 1..Len(last.req.Headers) :
                                     last.req.Headers[j][1] = "User-Agent"
                        IN  last.req.Headers[i][2]
                   ELSE "")
       /\ HeaderIs(last.sent[1], "Content-Type", "text/plain")

\* a request for the file f of the root directory
IsFileRequest(req, method, f) == req.Method = method /\ req.Path = "/files/" \o f

\* C8: POST /files/f with body b, answered 201, followed by GET /files/f with
\* no write to f in between and no failure of the read, gives 200 with body
\* exactly b.
C8_PostThenGet ==
    [][\A f \in {"f"} :
          (/\ Served
           /\ IsFileRequest(last.req, "POST", f)
           /\ Answered("201 Created", "")
           /\ last'.kind = "data" /\ last'.ok
           /\ IsFileRequest(last'.req, "GET", f)
           /\ ~last'.fsop.err)
          => /\ Len(last'.sent) = 1
             /\ StatusOf(last'.sent[1]) = "200 OK"
             /\ last'.sent[1].body = last.req.Body]_vars

\* C9: GET /files/f receives 200 with Content-Type: application/octet-stream
\* and the file's bytes when the file can be read, and 404 with an empty body
\* when it cannot.
C9_GetFile ==
    (/\ Served
     /\ last.req.Method = "GET"
     /\ HasPrefix(last.req.Path, "/files/"))
    => LET path == FilepathJoin(Dir, SubSeq(last.req.Path, Len("/files/") + 1,
                                            Len(last.req.Path)))
           readable == /\ path \in DOMAIN fs
                       /\ fs[path].kind = "file"
                       /\ ~last.fsop.err
       IN  IF readable
           THEN /\ Answered("200 OK", fs[path].data)
                /\ HeaderIs(last.sent[1], "Content-Type", "application/octet-stream")
           ELSE Answered("404 Not Found", "")

\* C10: POST /files/f writes the whole request body to the resolved path,
\* replacing what was there, and answers 201 with an empty body when the
\* write succeeds; when the write fails it answers 500 with an empty body.
C10_CreateFile ==
    (/\ Served
     /\ last.req.Method = "POST"
     /\ HasPrefix(last.req.Path, "/files/"))
    => LET path == FilepathJoin(Dir, SubSeq(last.req.Path, Len("/files/") + 1,
                                            Len(last.req.Path)))
       IN  /\ last.ran = <<"createFileHandler">>
           /\ last.fsop.op = "write"
           /\ last.fsop.path = path
           /\ IF last.fsop.err
              THEN Answered("500 Internal Server Error", "")
              ELSE /\ Answered("201 Created", "")
                   /\ fs[path] = File(last.req.Body)

\* a second POST on the connection has replaced the file's content
C10_Witness ==
    /\ Served
    /\ IsFileRequest(last.req, "POST", "f")
    /\ last.req.Body = "yo!"
    /\ ~last.fsop.err
    /\ fs["f"] = File("yo!")
    /\ nvalid[last.conn] = 2
    /\ Answered("201 Created", "")

\* the resolved path names a file inside the root directory dir
InsideRoot(dir, path) ==
    LET root == Clean(dir)
    IN  IF root = "."
        THEN path # ".." /\ ~HasPrefix(path, "../") /\ ~HasPrefix(path, "/")
        ELSE path = root \/ HasPrefix(path, root \o "/")

\* C11: the path that the file read and the file create handlers resolve for
\* a request path starting with "/files/", ".." segments included, lies inside
\* the root directory: no request reads or writes a file outside the root.
C11_FilesStayInRoot ==
    (Served /\ last.fsop.op # "none") => InsideRoot(Dir, last.fsop.path)

\* the first line of the bytes has fewer than two space-separated tokens
Malformed(raw) ==
    LET i == Index(raw, CRLF)
        first == IF i = 0 THEN raw ELSE SubSeq(raw, 1, i - 1)
    IN  ~Contains(first, " ")

\* C12: when the bytes of one read do not parse to a valid request the worker
\* writes no response, keeps the connection open and goes back to reading,
\* also when the bytes contain a line "Connection: close".
C12_MalformedIgnored ==
    [][\A c \in DOMAIN pc :
          (nreads'[c] = nreads[c] + 1 /\ Malformed(last'.raw))
          => /\ last'.conn = c
             /\ ~last'.ok
             /\ last'.sent = <<>>
             /\ nsent' = nsent
             /\ nvalid' = nvalid
             /\ fs' = fs
             /\ pc[c] = "Reading"
             /\ pc' = pc]_vars

\* bytes with a line "Connection: close" and no request line were read as the
\* second read of a connection, which is still open and unanswered
C12_Witness ==
    /\ last.kind = "data"
    /\ last.raw = "GARBAGE" \o CRLF \o "Connection: close" \o CRLF \o CRLF
    /\ Malformed(last.raw)
    /\ nreads[last.conn] = 2
    /\ nsent[last.conn] = 0
    /\ pc[last.conn] = "Reading"

\* sendResponse has returned: last.calls[1] is the call, last.sent[1] what it
\* wrote
Sent == last.kind = "sent" /\ Len(last.sent) = 1

CORSDefault(name) ==
    CASE name = "Access-Control-Allow-Origin"  -> "*"
      [] name = "Access-Control-Allow-Methods" -> "GET, POST, OPTIONS"
      [] name = "Access-Control-Allow-Headers" ->
            "Content-Type, Accept, Accept-Encoding, X-Requested-With"

\* C14: every response sendResponse writes contains each of the three CORS
\* headers exactly once, with the default value unless the caller supplied a
\* value for that header name, and then with the caller's value.
C14_CORSOnce ==
    Sent =>
        \A name \in CORSNames :
            LET given == last.calls[1].headers
                mine == {i \in 1..Len(given) : given[i][1] = name}
            IN  IF mine = {}
                THEN HeaderIs(last.sent[1], name, CORSDefault(name))
                ELSE \A i \in mine : HeaderIs(last.sent[1], name, given[i][2])

\* a caller gave its own Allow-Origin and no other CORS header: the response
\* carries the caller's origin and the default methods
C14_Witness ==
    /\ Sent
    /\ last.calls[1].headers = << <<"Access-Control-Allow-Origin", "https://a.example">> >>
    /\ HeaderIs(last.sent[1], "Access-Control-Allow-Origin", "https://a.example")
    /\ HeaderIs(last.sent[1], "Access-Control-Allow-Methods", "GET, POST, OPTIONS")

\* the response announces that the connection will be closed
AnnouncesClose(resp) ==
    \E i \in 2..Len(resp.lines) : resp.lines[i] = "Connection: close"

\* C15: a response contains the header Connection: close if and only if the
\* request it answers carried a Connection header whose value is exactly
\* "close"; so the server closes the connection after a response exactly
\* when that response announced Connection: close.
C15_CloseAnnounced ==
    Served =>
        /\ Len(last.sent) = 1
        /\ AnnouncesClose(last.sent[1]) <=> HasConnectionClose(last.req)
        /\ pc[last.conn] = "Closed" <=> AnnouncesClose(last.sent[1])
        /\ HeaderCount(last.sent[1], "Connection") <= 1

\* a request with Connection: close was answered by a response that says so,
\* and the connection is closed
C15_Witness ==
    /\ Served
    /\ HasConnectionClose(last.req)
    /\ Len(last.sent) = 1
    /\ AnnouncesClose(last.sent[1])
    /\ pc[last.conn] = "Closed"

\* C16: an OPTIONS request on any path that starts with "/" receives 204 with
\* an empty body and no header beyond the standard CORS set, Content-Length
\* and Connection.
C16_OptionsAnyPath ==
    (Served /\ last.req.Method = "OPTIONS" /\ HasPrefix(last.req.Path, "/"))
    => /\ last.ran = <<"optionsHandler">>
       /\ Answered("204 No Content", "")
       /\ HeaderNames(last.sent[1]) \subseteq
             CORSNames \cup {"Content-Length", "Connection"}
       /\ \A name \in CORSNames : HeaderIs(last.sent[1], name, CORSDefault(name))
       /\ HeaderIs(last.sent[1], "Content-Length", "0")

\* OPTIONS on a path below the root, /files/f, was answered 204
C16_Witness ==
    /\ Served
    /\ last.req.Method = "OPTIONS"
    /\ last.req.Path = "/files/f"
    /\ Answered("204 No Content", "")

\* what the server holds of connection c
ConnState(c) == <<pc[c], nreads[c], nvalid[c], nsent[c]>>

\* C17: every accepted connection is handled by exactly one worker for its
\* whole lifetime and no worker reads, writes or closes another worker's
\* connection: an error, a close or a malformed request on one connection
\* never changes the state of another, and never stops the accept loop, which
\* keeps accepting and starting a worker for every accepted connection.
C17_WorkersIsolated ==
    /\ [][\A d \in DOMAIN pc :
            ConnState(d)' # ConnState(d) =>
                \* the accept loop takes the connection up, once
                \/ /\ pc[d] = "Idle"
                   /\ pc'[d] \in {"Reading", "Aborted"}
                   /\ \A e \in DOMAIN pc \ {d} : ConnState(e)' = ConnState(e)
                   /\ UNCHANGED <<nreads, nvalid, nsent, last, fs>>
                \* or its own worker reads from it
                \/ /\ pc[d] = "Reading"
                   /\ last'.conn = d
                   /\ \A e \in DOMAIN pc \ {d} : ConnState(e)' = ConnState(e)]_vars
    /\ [][mainPc = "Accept" => mainPc' = "Accept"]_vars
    /\ [](\A d \in DOMAIN pc :
            (mainPc = "Accept" /\ pc[d] = "Idle") => ENABLED Accept(d))
    /\ [](\A d \in DOMAIN pc :
            (pc[d] = "Idle" \/ pc[d] = "Aborted") =>
                nreads[d] = 0 /\ nvalid[d] = 0 /\ nsent[d] = 0)

\* the read of connection 1 failed and closed it, after a malformed request,
\* while connection 2, which has answered a request, is still being read and
\* the accept loop still runs
C17_Witness ==
    /\ DOMAIN pc = {1, 2}
    /\ last.conn = 1 /\ last.kind = "err"
    /\ pc[1] = "Closed" /\ nreads[1] = 1 /\ nvalid[1] = 0
    /\ pc[2] = "Reading" /\ nsent[2] = 1
    /\ mainPc = "Accept"

\* a worker serves GET on a path under /files/ and then reads the same bytes
\* again, the file system unchanged in between
RepeatedFileGet ==
    /\ Served
    /\ last.req.Method = "GET"
    /\ HasPrefix(last.req.Path, "/files/")
    /\ last'.kind = "data" /\ last'.ok
    /\ last'.conn = last.conn
    /\ last'.raw = last.raw
    /\ nreads'[last.conn] = nreads[last.conn] + 1
    /\ fs' = fs

\* the header lines of a response, whatever their order
HeaderLines(resp) == {resp.lines[i] : i \in 2..Len(resp.lines)}

\* C18: repeating GET /files/x with the file and the request unchanged gives
\* byte-identical serialized responses.
C18_ByteIdentical ==
    [][RepeatedFileGet =>
          /\ Len(last'.sent) = 1 /\ Len(last.sent) = 1
          /\ FinalResp(last'.sent[1]) = FinalResp(last.sent[1])]_vars

\* C18, amended: repeating GET /files/x with the file and the request
\* unchanged gives responses with the same status line, the same header lines
\* and the same body; the order of the header lines can differ.
C18_SameUpToHeaderOrder ==
    [][RepeatedFileGet =>
          /\ Len(last'.sent) = 1 /\ Len(last.sent) = 1
          /\ last'.sent[1].lines[1] = last.sent[1].lines[1]
          /\ Len(last'.sent[1].lines) = Len(last.sent[1].lines)
          /\ HeaderLines(last'.sent[1]) = HeaderLines(last.sent[1])
          /\ last'.sent[1].body = last.sent[1].body]_vars

\* the second GET /files/f of a connection was answered with the header lines
\* in another order than that of the map's slots
C18_Witness ==
    /\ Served
    /\ IsFileRequest(last.req, "GET", "f")
    /\ nvalid[last.conn] = 2
    /\ nsent[last.conn] = 2
    /\ last.sent[1].lines[2] # "Access-Control-Allow-Origin: *"

\* route i of the table accepts the request: the methods are equal byte for
\* byte, and the path equals the pattern (Exact) or starts with it (Prefix)
Accepts(i, req) ==
    /\ router[i].Method = req.Method
    /\ IF router[i].IsPrefix
       THEN /\ Len(req.Path) >= Len(router[i].Path)
            /\ \A k \in 1..Len(router[i].Path) :
                  SubSeq(req.Path, k, k) = SubSeq(router[i].Path, k, k)
       ELSE req.Path = router[i].Path

\* C19: ServeRequest invokes the handler of the first route, in registration
\* order, whose method equals the request's method exactly and whose pattern
\* matches the path by the route's mode; a later matching route is never
\* invoked; exactly one of a handler or the 404 fallback runs per request.
C19_FirstMatchWins ==
    Served =>
        LET matching == {i \in 1..Len(router) : Accepts(i, last.req)}
        IN  /\ Len(last.ran) = 1
            /\ Len(last.calls) = 1
            /\ IF matching = {}
               THEN /\ last.ran = <<"fallback">>
                    /\ last.calls = <<Call("404 Not Found", EmptyMap, "")>>
               ELSE \E i \in matching :
                        /\ \A j \in matching : i <= j
                        /\ last.ran = <<router[i].Handler>>

\* GET /echo/ab matches the routes GET / and GET /echo/; the handler of the
\* first one ran
C19_Witness ==
    /\ Served
    /\ last.req.Method = "GET"
    /\ last.req.Path = "/echo/ab"
    /\ Cardinality({i \in 1..Len(router) : Accepts(i, last.req)}) = 2
    /\ last.ran = <<"rootHandler">>

\* the last byte of the pattern is "/"
EndsInSlash(path) == Len(path) > 0 /\ SubSeq(path, Len(path), Len(path)) = "/"

\* C20: Register stores a route as Prefix if and only if its pattern ends in
\* "/", as Exact otherwise, and appends it after the routes registered before,
\* which it leaves as they are; once the listener accepts, no route is ever
\* added, removed or changed.
C20_RegisterAppends ==
    /\ [](\A i \in 1..Len(router) : router[i].IsPrefix <=> EndsInSlash(router[i].Path))
    /\ [](\A i \in 1..Len(router) :
             /\ router[i].Path = Registrations[i][2]
             /\ router[i].Handler = Registrations[i][3])
    /\ [][router' # router =>
             /\ mainPc = "Register"
             /\ Len(router') = Len(router) + 1
             /\ SubSeq(router', 1, Len(router)) = router]_vars
    /\ [][mainPc # "Register" => router' = router]_vars

\* the six routes are registered, a Prefix and an Exact one among them, the
\* listener accepts and a worker has served a request
C20_Witness ==
    /\ mainPc = "Accept"
    /\ Len(router) = 6
    /\ router[2].IsPrefix /\ router[2].Path = "/echo/"
    /\ ~router[3].IsPrefix /\ router[3].Path = "/user-agent"
    /\ Served
    /\ nvalid[last.conn] = 1

\* C21: a receive that returns zero bytes, end-of-stream or another error
\* takes the worker to Closed with no response sent for that receive; by
\* whatever path the worker leaves its loop the connection is closed, and
\* after that the worker neither reads from it nor writes to it.
C21_ReadFailureCloses ==
    /\ []((last.kind = "eof" \/ last.kind = "err") =>
            /\ pc[last.conn] = "Closed"
            /\ last.closed
            /\ last.sent = <<>>
            /\ last.calls = <<>>)
    /\ [][\A c \in DOMAIN pc :
            /\ (last'.conn = c /\ last'.kind \in {"eof", "err"} /\ pc[c] = "Reading")
               => (nsent' = nsent /\ nvalid' = nvalid /\ nreads' = nreads /\ fs' = fs)
            /\ (pc[c] = "Reading" /\ pc'[c] # "Reading") => pc'[c] = "Closed"
            /\ pc[c] = "Closed" => ConnState(c)' = ConnState(c)]_vars

\* after one answered request the next receive reported the end of the
\* stream: the connection is closed with that one response written
C21_Witness ==
    /\ last.kind = "eof"
    /\ pc[last.conn] = "Closed"
    /\ nvalid[last.conn] = 1
    /\ nsent[last.conn] = 1

\* C22: when writing a response to the connection fails the worker closes
\* that connection: it does not read and handle further requests on it.
C22_FailedWriteCloses ==
    (Served /\ Len(last.sent) > 0 /\ ~last.delivered) => pc[last.conn] = "Closed"

\* C23: on each connection every validly parsed request causes exactly one
\* response to be written, before the next read on that connection: at every
\* point the responses written are as many as the valid requests dispatched,
\* and each response follows its own request.
C23_OneResponsePerRequest ==
    /\ [](\A c \in DOMAIN pc : nsent[c] = nvalid[c] /\ nvalid[c] <= nreads[c])
    /\ [](Served => Len(last.calls) = 1 /\ Len(last.sent) = 1 /\ Len(last.ran) = 1)
    /\ [][\A c \in DOMAIN pc :
            /\ nvalid'[c] # nvalid[c] =>
                  /\ nvalid'[c] = nvalid[c] + 1
                  /\ nreads'[c] = nreads[c] + 1
                  /\ nsent'[c] = nsent[c] + 1
                  /\ last'.conn = c /\ last'.ok /\ Len(last'.sent) = 1
            /\ nsent'[c] # nsent[c] => nvalid'[c] # nvalid[c]]_vars

\* the first read of a connection was malformed and the second a request:
\* two reads, one valid request, one response
C23_Witness ==
    /\ Served
    /\ nreads[last.conn] = 2
    /\ nvalid[last.conn] = 1
    /\ nsent[last.conn] = 1
    /\ pc[last.conn] = "Reading"

\* everything after the first CRLF CRLF of the bytes; empty without one
BodyOf(raw) ==
    LET i == Index(raw, CRLF \o CRLF)
    IN  IF i = 0 THEN "" ELSE SubSeq(raw, i + 4, Len(raw))

\* C24: parseRequest splits the raw bytes at the first CRLF CRLF: the body is
\* everything after that separator, later CRLF CRLF sequences included, and
\* is empty when there is no separator.
C24_BodyAfterFirstSeparator ==
    Served => last.req.Body = BodyOf(last.raw)

\* the lines of the bytes between the request line and the first CRLF CRLF
HeaderBlockLines(raw) ==
    LET i == Index(raw, CRLF \o CRLF)
        block == IF i = 0 THEN raw ELSE SubSeq(raw, 1, i - 1)
    IN  Tail(Split(block, CRLF))

NameOf(line) == SubSeq(line, 1, Index(line, ": ") - 1)

ValueOf(line) == SubSeq(line, Index(line, ": ") + 2, Len(line))

\* C25: a line after the request line is stored as a header if and only if it
\* contains ": "; the name is the text before the first occurrence and the
\* value the text after it; other lines are ignored and leave the request
\* valid; of several lines with one name the last one's value is stored;
\* names are case-sensitive, so "connection: close" is no Connection: close.
C25_HeaderLines ==
    (last.kind = "data" /\ ~Malformed(last.raw)) =>
        LET ls == HeaderBlockLines(last.raw)
            hs == {i \in 1..Len(ls) : Contains(ls[i], ": ")}
            stored == {last.req.Headers[k] : k \in 1..Len(last.req.Headers)}
        IN  /\ last.ok
            /\ Cardinality({h[1] : h \in stored}) = Len(last.req.Headers)
            /\ stored =
                  {<<NameOf(ls[i]), ValueOf(ls[i])>> :
                     i \in {j \in hs : \A k \in hs : k > j => NameOf(ls[k]) # NameOf(ls[j])}}
            /\ (\A i \in hs : NameOf(ls[i]) # "Connection") =>
                  /\ pc[last.conn] = "Reading"
                  /\ \A k \in 1..Len(last.sent) : ~AnnouncesClose(last.sent[k])

\* Connection: keep-alive followed by Connection: close: the stored value is
\* close, and the connection was closed
C25_Witness ==
    /\ Served
    /\ HeaderBlockLines(last.raw) = <<"Connection: keep-alive", "Connection: close">>
    /\ last.req.Headers = << <<"Connection", "close">> >>
    /\ pc[last.conn] = "Closed"

\* C26: parseRequest returns valid=false when the request line has fewer than
\* two space-separated tokens, and every request it returns as valid has a
\* method and a path that are not the empty string: no request with a missing
\* method or path reaches the Router.
C26_MethodAndPathPresent ==
    last.kind = "data" =>
        /\ Malformed(last.raw) => ~last.ok
        /\ last.ok => (last.req.Method # "" /\ last.req.Path # "")
        /\ last.ran # <<>> => (last.req.Method # "" /\ last.req.Path # "")

\* two complete requests in the bytes of one read
TwoRequests == Raw("GET", "/", <<>>, "") \o Raw("POST", "/files/f", <<>>, "hi")

\* the event ev of a read is what the dispatch s of the request req gives:
\* the same handler ran, with the same calls of sendResponse, and the response
\* written has the status line, the header lines and the body of those calls
SameAnswer(ev, s, req) ==
    /\ ev.ran = s.ran
    /\ ev.calls = s.eff.calls
    /\ Len(ev.sent) = Len(s.eff.calls)
    /\ \A k \in 1..Len(s.eff.calls) :
          \E r \in {sendResponse(s.eff.calls[k].status, s.eff.calls[k].headers,
                                 s.eff.calls[k].body, req, 0)} :
              /\ ev.sent[k].lines[1] = r.lines[1]
              /\ HeaderLines(ev.sent[k]) = HeaderLines(r)
              /\ ev.sent[k].body = r.body

\* C27: each receive yields at most one response and the worker keeps no
\* request bytes from one iteration to the next: of two complete requests in
\* one read only the first is parsed and answered, the second never, and what
\* an iteration answers depends only on the bytes of that read, the route
\* table and the file system.
C27_OneReadOneResponse ==
    [][\A c \in DOMAIN pc :
          nreads'[c] = nreads[c] + 1 =>
              LET p == Parsed[last'.raw]
              IN  /\ last'.conn = c
                  /\ Len(last'.sent) <= 1
                  /\ nsent'[c] <= nsent[c] + 1
                  /\ last'.ok = p.ok
                  /\ ~p.ok => (last'.sent = <<>> /\ fs' = fs)
                  /\ p.ok =>
                        /\ last'.req = p.req
                        /\ \E s0 \in {ServeRequest(router, p.req, Dir, fs, IoOk)} :
                              IF s0.eff.fsop.op = "none" \/ ~last'.fsop.err
                              THEN fs' = s0.eff.files /\ SameAnswer(last', s0, p.req)
                              ELSE \E io \in IoOutcomes :
                                   \E s \in {ServeRequest(router, p.req, Dir, fs, io)} :
                                       fs' = s.eff.files /\ SameAnswer(last', s, p.req)
                  /\ last'.raw = TwoRequests =>
                        /\ last'.req.Method = "GET" /\ last'.req.Path = "/"
                        /\ last'.ran = <<"rootHandler">>
                        /\ Len(last'.sent) = 1
                        /\ last'.fsop.op = "none"
                        /\ fs' = fs]_vars

\* a read with two requests, GET / and POST /files/f, was answered once, by
\* the root handler, and the file of the POST was not written
C27_Witness ==
    /\ Served
    /\ last.raw = TwoRequests
    /\ nsent[last.conn] = 1
    /\ StatusOf(last.sent[1]) = "200 OK"
    /\ fs["f"] = NoFile
    /\ pc[last.conn] = "Reading"

====
